---- MODULE Spec2Model ----
(***************************************************************************)
(* The workstack sequencing engine of logic/workstack_logic.py             *)
(* (class WorkstackLogic): a list of actions replayed once per target,     *)
(* driven by Qt signal handlers.                                           *)
(*                                                                         *)
(* The object's fields are the record `self`; its field stackIsActions     *)
(* tells whether self.stack and self.actions are bound to the same list    *)
(* object (list(...) makes a new one).  The Python call stack of a         *)
(* handler that is executing is the sequence `kont` (innermost frame       *)
(* first); a call in tail position (do_action -> run_next_action ->        *)
(* do_action, do_next_target -> do_action) replaces the frame of its       *)
(* caller.  Queued Qt signals are delivered only when no handler is        *)
(* executing (kont = <<>>).                                                *)
(*                                                                         *)
(* kont and exc belong to the thread cur.  Under Spec everything runs on   *)
(* one thread; under SpecThreads start_work and stop_work are called on a  *)
(* caller thread while the queued signals are handled on the thread of the *)
(* logic module, and `other` keeps the call stack of the thread that is    *)
(* not executing.                                                          *)
(*                                                                         *)
(* `result` is what the last direct call of store, fetch or save returned: *)
(* SpecSave adds calls of save() to Spec, SpecExport runs two targets in   *)
(* either order with save(), SpecStore calls store() and fetch() alone.    *)
(* SpecAbandon runs a program that abandons a target whose timer is        *)
(* running.  SpecLive drives runs to their end: it states the fairness of  *)
(* handler steps and of the notification a suspended Wait is waiting for.  *)
(***************************************************************************)
EXTENDS Integers, Sequences, FiniteSets, TLC

VARIABLES self, kont, exc, timerReq, timerArmed, trace, events, cur, other,
          result

vars == <<self, kont, exc, timerReq, timerArmed, trace, events, cur, other,
          result>>

\* the thread that is not executing: its name is not cur, its call stack and
\* pending exception are in other
threads == <<cur, other>>

(***************************************************************************)
(* Bounds of the exploration.                                              *)
(***************************************************************************)
MaxTargets == 4      \* longest Targets list
MaxEvents == 3       \* external calls and notifications per behaviour
MaxTrace == 10      \* recorded history; recording stops when it is full
MaxQueued == 2       \* queued signal_start_timer emissions that are counted
MaxStack == 4        \* live program length up to which "inserter1" inserts
MaxThreadTargets == 1   \* longest Targets list under SpecThreads
MaxThreadEvents == 3    \* external calls and notifications under SpecThreads
MaxCalls == 4        \* calls of store and fetch under SpecStore
MaxStoreTargets == 2 \* longest Targets list under SpecStore

(***************************************************************************)
(* Instructions.  The magic strings are those of do_action; the others     *)
(* name a tuple or a callable by what its function does:                   *)
(*   "log"      ('desc', 'log', args)                                      *)
(*   "timer"    ('desc', 'timer', [secs])                                  *)
(*   "tcall"    ('desc', f, args), f an external function                  *)
(*   "call"     f, an external function (returns or raises)                *)
(*   "starttimer" ('Start timer', self.start_timer, (5,))                  *)
(*   "raise"    a callable that raises                                     *)
(*   "store"    lambda: self.store('a', 1)                                 *)
(*   "fetch"    lambda: self.log.info(self.fetch('a'))                     *)
(*   "stopper"  a callable that may call stop_work() and returns           *)
(*   "logX"     ('X', 'log', []),  "logY"  ('Y', 'log', [])                *)
(*   "inserter" lambda: self.insert_actions([X, Y]), X, Y the two above    *)
(*   "inserter1" lambda: len(self.stack) < MaxStack                        *)
(*                       and self.insert_action(X)                         *)
(*   "looptargets" loop_targets of workstack_roi_refine_psat.py            *)
(*   "storefirst" lambda: self.target_index == 0 and self.store('a', 1)    *)
(***************************************************************************)
WaitIns == {"wait", "wait timer", "wait pulse upload", "wait refocus"}
CallIns == {"tcall", "call", "starttimer", "raise", "store", "fetch", "stopper",
            "inserter", "inserter1", "looptargets", "storefirst"}
LogIns == {"log", "logX", "logY"}

Programs ==
    { <<>>,
      <<"call", "wait refocus", "call">>,
      <<"tcall", "wait pulse upload", "call">>,
      <<"starttimer", "wait timer", "call">>,
      <<"tcall", "wait", "log">>,
      <<"store", "raise">>,
      <<"fetch", "stopper">>,
      <<"call", "next target", "call">>,
      <<"call", "start again">>,
      <<"log", "timer", "wait timer", "store">>,
      <<"call", "inserter", "log">>,
      <<"log", "inserter">>,
      <<"inserter1", "log">>,
      <<"log", "looptargets">>,
      <<"timer", "timer", "wait", "log">>,
      <<"fetch", "wait", "log">>,
      <<"store", "wait", "start again">> }

TargetNames == <<"A", "B", "C", "D", "E", "F">>
TargetLists == { SubSeq(TargetNames, 1, n) : n \in 0..MaxTargets }

NoExc == "none"
\* result: what the last call of store, fetch or save returned to its caller
NoResult == [call |-> "none"]
\* 0.0, the value fetch returns and save exports for a name that a target's
\* map does not hold
Sentinel == 0
EmptyDict == [n \in {} |-> 0]

(***************************************************************************)
(* History: one record per observable event, in order.                     *)
(*   exec    do_action dispatched instruction ins at (ti, sp)              *)
(*   resume  a Call function of target ti continued after a nested call    *)
(*   except  _run caught an exception of the Call at (ti, sp)              *)
(*   escape  an exception left the handler for its caller                  *)
(*   start / stop / notify   external call or delivered signal             *)
(*   targets the script assigned another list to the targets field         *)
(*   save    save() was called                                             *)
(*   store / fetch   store() or fetch() was called directly (SpecStore)    *)
(*   emit    signal_work_started or signal_work_stopped was emitted (ins    *)
(*           names it); no method of the class emits either                *)
(* n is the length of the live program when the event happens.             *)
(***************************************************************************)
Ev(ev, ti, sp, ins) ==
    [ev |-> ev, ti |-> ti, sp |-> sp, ins |-> ins, n |-> Len(self.stack)]
Rec(t, e) == IF Len(t) < MaxTrace THEN Append(t, e) ELSE t
Here(ev, ins) == Ev(ev, self.target_index, self.sp, ins)

Frame(op, ti, sp) == [op |-> op, ti |-> ti, sp |-> sp]

(***************************************************************************)
(* Exceptions.  InCall are those raised while a Call's function runs.      *)
(* An exception leaves every frame that has no try block around the call   *)
(* in progress; only _run has one.                                         *)
(***************************************************************************)
InCall == {"ActionFailure", "KeyError", "IndexError:targets"}

RECURSIVE Unwound(_)
Unwound(k) ==
    IF k = <<>> \/ Head(k).op = "_run" THEN k ELSE Unwound(Tail(k))

(***************************************************************************)
(* Methods of WorkstackLogic that only read or write fields.               *)
(***************************************************************************)
CurrentTargetRaises(s) ==
    s.multipleTargets /\ s.target_index >= Len(s.targets)

CurrentTarget(s) ==
    IF s.multipleTargets THEN s.targets[s.target_index + 1] ELSE "_"

\* variant: the result store is rebuilt when a target's map is created
EnsureStoreFresh(s) ==
    LET t == CurrentTarget(s)
    IN  IF t \in DOMAIN s.store
        THEN s
        ELSE [s EXCEPT !.store = [k \in {t} |-> EmptyDict]]

EnsureStore(s) ==
    LET t == CurrentTarget(s)
    IN  IF t \in DOMAIN s.store
        THEN s
        ELSE [s EXCEPT !.store =
                 [k \in DOMAIN s.store \cup {t} |->
                     IF k = t THEN EmptyDict ELSE s.store[k]]]

StopWork(s) == [s EXCEPT !.running = FALSE]

\* variant: self.stack = self.actions, the same list object
ResetStackNoCopy(s) ==
    [s EXCEPT !.sp = 0, !.stack = s.actions, !.stackIsActions = TRUE]

\* reset_stack: self.stack = list(self.actions), a new list object
ResetStack(s) ==
    [s EXCEPT !.sp = 0, !.stack = s.actions, !.stackIsActions = FALSE]

\* variant: the end-of-stack test is off by one
AdvanceSpOffByOne(s) ==
    IF s.sp >= Len(s.stack)
    THEN IF s.multipleTargets
         THEN IF s.target_index >= Len(s.targets) - 1
              THEN StopWork(s)
              ELSE ResetStack([s EXCEPT !.target_index = s.target_index + 1])
         ELSE StopWork(s)
    ELSE [s EXCEPT !.sp = s.sp + 1]

\* variant: advance_sp moves on from the last target as well
AdvanceSpPastLastTarget(s) ==
    IF s.sp >= Len(s.stack) - 1
    THEN IF s.multipleTargets
         THEN IF s.target_index >= Len(s.targets)
              THEN StopWork(s)
              ELSE ResetStack([s EXCEPT !.target_index = s.target_index + 1])
         ELSE StopWork(s)
    ELSE [s EXCEPT !.sp = s.sp + 1]

AdvanceSp(s) ==
    IF s.sp >= Len(s.stack) - 1
    THEN IF s.multipleTargets
         THEN IF s.target_index >= Len(s.targets) - 1
              THEN StopWork(s)
              ELSE ResetStack([s EXCEPT !.target_index = s.target_index + 1])
         ELSE StopWork(s)
    ELSE [s EXCEPT !.sp = s.sp + 1]

\* variant: run_next_action advances without testing self.running
RunNextActionStateUnguarded(s) == AdvanceSp(s)

\* variant: run_next_action calls do_action without advance_sp
RunNextActionStateNoAdvance(s) == s

\* run_next_action: the fields after it, and the call stack after it
RunNextActionState(s) == IF s.running THEN AdvanceSp(s) ELSE s
RunNextActionKont(s, k) ==
    IF s.running THEN <<Frame("do_action", 0, 0)>> \o k ELSE k

\* do_next_target: whether it moves on, the fields after it, the call stack
DoNextTargetMoves(s) ==
    s.multipleTargets /\ s.target_index < Len(s.targets) - 1
\* variant: do_next_target moves on without reset_stack()
DoNextTargetStateNoReset(s) ==
    IF DoNextTargetMoves(s)
    THEN EnsureStore([s EXCEPT !.target_index = s.target_index + 1])
    ELSE StopWork(s)

DoNextTargetState(s) ==
    IF DoNextTargetMoves(s)
    THEN ResetStack(EnsureStore([s EXCEPT !.target_index = s.target_index + 1]))
    ELSE StopWork(s)
DoNextTargetKont(s, k) ==
    IF DoNextTargetMoves(s) THEN <<Frame("do_action", 0, 0)>> \o k ELSE k

\* variant: the new instructions are spliced in at the cursor
InsertActionsAtCursor(s, xs) ==
    [s EXCEPT !.stack = SubSeq(s.stack, 1, s.sp) \o xs
                            \o SubSeq(s.stack, s.sp + 1, Len(s.stack)),
              !.stackIsActions = FALSE]

\* insert_actions: self.stack is bound to the new list
\* stack[0:sp+1] + actions + stack[sp+1:]
InsertActions(s, xs) ==
    [s EXCEPT !.stack = SubSeq(s.stack, 1, s.sp + 1) \o xs
                            \o SubSeq(s.stack, s.sp + 2, Len(s.stack)),
              !.stackIsActions = FALSE]

\* insert_action: self.stack.insert(self.sp, action) changes the list object
\* in place, and with it every field that is bound to the same object
InsertAction(s, x) ==
    LET new == SubSeq(s.stack, 1, s.sp) \o <<x>>
                   \o SubSeq(s.stack, s.sp + 1, Len(s.stack))
    IN  [s EXCEPT !.stack = new,
                  !.actions = IF s.stackIsActions THEN new ELSE s.actions]

\* variant: store() rebuilds the map of the current target
StoreValueFresh(s, name, value) ==
    LET s1 == EnsureStore(s)
        k == CurrentTarget(s)
    IN  [s1 EXCEPT !.store[k] = [n \in {name} |-> value]]

\* store(name, value)
StoreValue(s, name, value) ==
    LET s1 == EnsureStore(s)
        k == CurrentTarget(s)
        d == s1.store[k]
    IN  [s1 EXCEPT !.store[k] =
            [n \in DOMAIN d \cup {name} |-> IF n = name THEN value ELSE d[n]]]

(***************************************************************************)
(* save(): the exported table.  Its rows are the keys of the result store  *)
(* in sorted order (Python compares the strings: upper-case letters come   *)
(* before '_'), one cell per name of save_values.                          *)
(***************************************************************************)
KeyOrder == TargetNames \o <<"_">>
KeyRank(t) == CHOOSE i \in 1..Len(KeyOrder) : KeyOrder[i] = t
\* sorted(x[0] for x in self._store.items())
Sorted(S) ==
    CHOOSE q \in [1..Cardinality(S) -> S] :
        \A i, j \in 1..Cardinality(S) : i < j => KeyRank(q[i]) < KeyRank(q[j])
\* self.save_values, the names that are exported
SaveValues == <<"a", "b">>
\* data[k] = [self._store[t][k] if k in self._store[t].keys() else 0.0 ...]
SaveTable(s, names) ==
    LET targets == Sorted(DOMAIN s.store)
    IN  [i \in 1..Len(targets) |->
            [target |-> targets[i],
             cells |-> [k \in 1..Len(names) |->
                          IF names[k] \in DOMAIN s.store[targets[i]]
                          THEN s.store[targets[i]][names[k]]
                          ELSE Sentinel]]]

(***************************************************************************)
(* Initial state: the object after __init__, activated, with the actions   *)
(* and targets a script has assigned to it.                                *)
(***************************************************************************)
Init ==
    /\ \E P \in Programs, T \in TargetLists :
          self = [ targets |-> T, actions |-> P, stack |-> <<>>,
                   store |-> EmptyDict, sp |-> 0, running |-> FALSE,
                   target_index |-> 0, multipleTargets |-> FALSE,
                   waiting_on |-> "", stackIsActions |-> FALSE ]
    /\ kont = <<>>
    /\ exc = NoExc
    /\ timerReq = 0
    /\ timerArmed = FALSE
    /\ trace = <<>>
    /\ events = 0
    /\ cur = "scheduler"
    /\ other = [kont |-> <<>>, exc |-> NoExc]
    /\ result = NoResult

\* No handler is executing: the next call or queued signal can be taken.
\* A behaviour begins with start_work; before it every handler and stop_work
\* find running = FALSE and an empty stack and change nothing.
Idle == kont = <<>> /\ exc = NoExc
External == Idle /\ events < MaxEvents
Started == events > 0

(***************************************************************************)
(* External calls.                                                         *)
(***************************************************************************)
StartWork ==
    /\ External
    /\ LET s1 == IF Len(self.targets) > 0
                 THEN EnsureStore([self EXCEPT !.multipleTargets = TRUE,
                                               !.target_index = 0])
                 ELSE self
           s2 == [s1 EXCEPT !.stack = s1.actions, !.stackIsActions = FALSE,
                            !.sp = 0, !.running = TRUE]
       IN  /\ self' = s2
           /\ trace' = Rec(trace, Ev("start", s2.target_index, 0, "start"))
    /\ kont' = <<Frame("do_action", 0, 0)>>
    /\ events' = events + 1
    /\ UNCHANGED <<exc, timerReq, timerArmed, threads, result>>

StopWorkCall ==
    /\ External
    /\ Started
    /\ self' = StopWork(self)
    /\ trace' = Rec(trace, Here("stop", "stop"))
    /\ events' = events + 1
    /\ UNCHANGED <<kont, exc, timerReq, timerArmed, threads, result>>

(***************************************************************************)
(* Signal handlers.                                                        *)
(***************************************************************************)
\* variant: an unnamed Wait is released by no named notification
NamedHandlerNamedOnly(name) ==
    /\ IF self.waiting_on = name
       THEN LET s1 == [self EXCEPT !.waiting_on = ""]
            IN  /\ self' = RunNextActionState(s1)
                /\ kont' = RunNextActionKont(s1, kont)
       ELSE UNCHANGED <<self, kont>>
    /\ trace' = Rec(trace, Here("notify", name))
    /\ events' = events + 1
    /\ UNCHANGED exc

NamedHandler(name) ==
    /\ IF self.waiting_on = "" \/ self.waiting_on = name
       THEN LET s1 == [self EXCEPT !.waiting_on = ""]
            IN  /\ self' = RunNextActionState(s1)
                /\ kont' = RunNextActionKont(s1, kont)
       ELSE UNCHANGED <<self, kont>>
    /\ trace' = Rec(trace, Here("notify", name))
    /\ events' = events + 1
    /\ UNCHANGED exc

UnconditionalHandler(name) ==
    /\ self' = RunNextActionState(self)
    /\ kont' = RunNextActionKont(self, kont)
    /\ trace' = Rec(trace, Here("notify", name))
    /\ events' = events + 1
    /\ UNCHANGED exc

TimerFired ==
    /\ External
    /\ Started
    /\ timerArmed
    /\ timerArmed' = FALSE
    /\ NamedHandler("timer")
    /\ UNCHANGED <<timerReq, threads, result>>

Refocused ==
    /\ External
    /\ Started
    /\ NamedHandler("refocus")
    /\ UNCHANGED <<timerReq, timerArmed, threads, result>>

PulseSequenceBuilt ==
    /\ External
    /\ Started
    /\ NamedHandler("pulse upload")
    /\ UNCHANGED <<timerReq, timerArmed, threads, result>>

FinishedSaving ==
    /\ External
    /\ Started
    /\ UnconditionalHandler("image saved")
    /\ UNCHANGED <<timerReq, timerArmed, threads, result>>

FinishedImage ==
    /\ External
    /\ Started
    /\ UnconditionalHandler("image finished")
    /\ UNCHANGED <<timerReq, timerArmed, threads, result>>

\* _start_timer, the queued slot of signal_start_timer
StartTimerSlot ==
    /\ Idle
    /\ timerReq > 0
    /\ timerReq' = timerReq - 1
    /\ timerArmed' = TRUE
    /\ UNCHANGED <<self, kont, exc, trace, events, threads, result>>

(***************************************************************************)
(* do_action: one action per branch.  The frame on top of kont is the      *)
(* pending call of do_action.                                              *)
(***************************************************************************)
Rest == Tail(kont)
AtFrame(op) == kont # <<>> /\ exc = NoExc /\ Head(kont).op = op
Dispatch(ins) ==
    /\ AtFrame("do_action")
    /\ self.running
    /\ self.sp < Len(self.stack)
    /\ self.stack[self.sp + 1] = ins
InRun == <<Frame("_run", self.target_index, self.sp)>> \o Rest

WaitName(ins) ==
    CASE ins = "wait" -> ""
      [] ins = "wait timer" -> "timer"
      [] ins = "wait pulse upload" -> "pulse upload"
      [] ins = "wait refocus" -> "refocus"

\* if self.running: ... (else return)
DoActionNotRunning ==
    /\ AtFrame("do_action")
    /\ ~self.running
    /\ kont' = Rest
    /\ UNCHANGED <<self, exc, timerReq, timerArmed, trace, events, threads, result>>

\* action = self.stack[self.sp] with sp outside the list
DoActionIndexError ==
    /\ AtFrame("do_action")
    /\ self.running
    /\ self.sp >= Len(self.stack)
    /\ exc' = "IndexError:stack"
    /\ kont' = Unwound(Rest)
    /\ UNCHANGED <<self, timerReq, timerArmed, trace, events, threads, result>>

DoWait ==
    \E ins \in WaitIns :
        /\ Dispatch(ins)
        /\ self' = [self EXCEPT !.waiting_on = WaitName(ins)]
        /\ kont' = Rest
        /\ trace' = Rec(trace, Here("exec", ins))
        /\ UNCHANGED <<exc, timerReq, timerArmed, events, threads, result>>

DoStartAgain ==
    /\ Dispatch("start again")
    /\ LET s1 == ResetStack(self)
       IN  /\ self' = RunNextActionState(s1)
           /\ kont' = RunNextActionKont(s1, Rest)
    /\ trace' = Rec(trace, Here("exec", "start again"))
    /\ UNCHANGED <<exc, timerReq, timerArmed, events, threads, result>>

DoNextTargetIns ==
    /\ Dispatch("next target")
    /\ self' = DoNextTargetState(self)
    /\ kont' = DoNextTargetKont(self, Rest)
    /\ trace' = Rec(trace, Here("exec", "next target"))
    /\ UNCHANGED <<exc, timerReq, timerArmed, events, threads, result>>

DoLog ==
    \E ins \in LogIns :
        /\ Dispatch(ins)
        /\ self' = RunNextActionState(self)
        /\ kont' = RunNextActionKont(self, Rest)
        /\ trace' = Rec(trace, Here("exec", ins))
        /\ UNCHANGED <<exc, timerReq, timerArmed, events, threads, result>>

\* start_timer(secs) emits signal_start_timer, a queued connection
DoTimer ==
    /\ Dispatch("timer")
    /\ timerReq' = IF timerReq < MaxQueued THEN timerReq + 1 ELSE timerReq
    /\ self' = RunNextActionState(self)
    /\ kont' = RunNextActionKont(self, Rest)
    /\ trace' = Rec(trace, Here("exec", "timer"))
    /\ UNCHANGED <<exc, timerArmed, events, threads, result>>

(***************************************************************************)
(* Calls: self._run(desc, action, args).  The function body runs inside    *)
(* the try block of _run, whose frame stays on kont until it returns or    *)
(* its except clause takes over.                                           *)
(***************************************************************************)
DoCall ==
    \E ins \in {"call", "tcall"}, raises \in BOOLEAN :
        /\ Dispatch(ins)
        /\ exc' = IF raises THEN "ActionFailure" ELSE NoExc
        /\ kont' = InRun
        /\ trace' = Rec(trace, Here("exec", ins))
        /\ UNCHANGED <<self, timerReq, timerArmed, events, threads, result>>

\* ('Start timer', self.start_timer, (5,)): a Call whose function is start_timer
DoStartTimerCall ==
    /\ Dispatch("starttimer")
    /\ timerReq' = IF timerReq < MaxQueued THEN timerReq + 1 ELSE timerReq
    /\ kont' = InRun
    /\ trace' = Rec(trace, Here("exec", "starttimer"))
    /\ UNCHANGED <<self, exc, timerArmed, events, threads, result>>

DoRaise ==
    /\ Dispatch("raise")
    /\ exc' = "ActionFailure"
    /\ kont' = InRun
    /\ trace' = Rec(trace, Here("exec", "raise"))
    /\ UNCHANGED <<self, timerReq, timerArmed, events, threads, result>>

DoStoreCall ==
    /\ Dispatch("store")
    /\ IF CurrentTargetRaises(self)
       THEN exc' = "IndexError:targets" /\ UNCHANGED self
       ELSE self' = StoreValue(self, "a", 1) /\ UNCHANGED exc
    /\ kont' = InRun
    /\ trace' = Rec(trace, Here("exec", "store"))
    /\ UNCHANGED <<timerReq, timerArmed, events, threads, result>>

\* a callable that stores 'a' at the first target only
DoStoreFirst ==
    /\ Dispatch("storefirst")
    /\ IF CurrentTargetRaises(self)
       THEN exc' = "IndexError:targets" /\ UNCHANGED self
       ELSE /\ self' = IF self.target_index = 0
                       THEN StoreValue(self, "a", 1)
                       ELSE self
            /\ UNCHANGED exc
    /\ kont' = InRun
    /\ trace' = Rec(trace, Here("exec", "storefirst"))
    /\ UNCHANGED <<timerReq, timerArmed, events, threads, result>>

\* fetch('a') up to its return or to its call of do_next_target
DoFetchCall ==
    /\ Dispatch("fetch")
    /\ trace' = Rec(trace, Here("exec", "fetch"))
    /\ IF CurrentTargetRaises(self)
       THEN exc' = "IndexError:targets" /\ kont' = InRun /\ UNCHANGED self
       ELSE IF CurrentTarget(self) \notin DOMAIN self.store
            THEN /\ self' = DoNextTargetState(self)
                 /\ kont' = DoNextTargetKont(self,
                        <<Frame("fetch", self.target_index, self.sp)>> \o InRun)
                 /\ UNCHANGED exc
            ELSE /\ kont' = InRun
                 /\ UNCHANGED <<self, exc>>
    /\ UNCHANGED <<timerReq, timerArmed, events, threads, result>>

\* return self._store[self.current_target()][name], after do_next_target
FetchReturn ==
    /\ AtFrame("fetch")
    /\ LET e == IF CurrentTargetRaises(self) THEN "IndexError:targets"
                ELSE IF /\ CurrentTarget(self) \in DOMAIN self.store
                        /\ "a" \in DOMAIN self.store[CurrentTarget(self)]
                     THEN NoExc
                     ELSE "KeyError"
       IN  /\ exc' = e
           /\ kont' = IF e = NoExc THEN Rest ELSE Unwound(Rest)
    /\ trace' = Rec(trace, Ev("resume", Head(kont).ti, Head(kont).sp, "fetch"))
    /\ UNCHANGED <<self, timerReq, timerArmed, events, threads, result>>

DoStopper ==
    \E stops \in BOOLEAN :
        /\ Dispatch("stopper")
        /\ self' = IF stops THEN StopWork(self) ELSE self
        /\ kont' = InRun
        /\ trace' = IF stops
                    THEN Rec(Rec(trace, Here("exec", "stopper")), Here("stop", "stopper"))
                    ELSE Rec(trace, Here("exec", "stopper"))
        /\ UNCHANGED <<exc, timerReq, timerArmed, events, threads, result>>

\* a callable that calls insert_actions([X, Y])
DoInserter ==
    /\ Dispatch("inserter")
    /\ self' = InsertActions(self, <<"logX", "logY">>)
    /\ kont' = InRun
    /\ trace' = Rec(trace, Here("exec", "inserter"))
    /\ UNCHANGED <<exc, timerReq, timerArmed, events, threads, result>>

\* a callable that calls insert_action(X) while the live program is short
DoInserter1 ==
    /\ Dispatch("inserter1")
    /\ self' = IF Len(self.stack) < MaxStack
               THEN InsertAction(self, "logX")
               ELSE self
    /\ kont' = InRun
    /\ trace' = Rec(trace, Here("exec", "inserter1"))
    /\ UNCHANGED <<exc, timerReq, timerArmed, events, threads, result>>

\* loop_targets: after the last target, target_index = 0
DoLoopTargets ==
    /\ Dispatch("looptargets")
    /\ self' = IF self.target_index + 1 = Len(self.targets)
               THEN [self EXCEPT !.target_index = 0]
               ELSE self
    /\ kont' = InRun
    /\ trace' = Rec(trace, Here("exec", "looptargets"))
    /\ UNCHANGED <<exc, timerReq, timerArmed, events, threads, result>>

\* the function returned: _run returns, do_action calls run_next_action()
RunReturn ==
    /\ AtFrame("_run")
    /\ self' = RunNextActionState(self)
    /\ kont' = RunNextActionKont(self, Rest)
    /\ UNCHANGED <<exc, timerReq, timerArmed, trace, events, threads, result>>

\* variant: the except clause logs and re-raises
RunExceptReraise ==
    /\ kont # <<>>
    /\ exc # NoExc
    /\ Head(kont).op = "_run"
    /\ kont' = Unwound(Rest)
    /\ trace' = Rec(trace, Ev("except", Head(kont).ti, Head(kont).sp, exc))
    /\ UNCHANGED <<self, exc, timerReq, timerArmed, events, threads, result>>

\* except: log.error(...); self.do_next_target()
RunExcept ==
    /\ kont # <<>>
    /\ exc # NoExc
    /\ Head(kont).op = "_run"
    /\ exc' = NoExc
    /\ self' = DoNextTargetState(self)
    /\ kont' = DoNextTargetKont(self,
                  <<Frame("run_next_action", Head(kont).ti, Head(kont).sp)>> \o Rest)
    /\ trace' = Rec(trace, Ev("except", Head(kont).ti, Head(kont).sp, exc))
    /\ UNCHANGED <<timerReq, timerArmed, events, threads, result>>

\* _run returned from its except clause: do_action calls run_next_action()
AfterRun ==
    /\ AtFrame("run_next_action")
    /\ self' = RunNextActionState(self)
    /\ kont' = RunNextActionKont(self, Rest)
    /\ UNCHANGED <<exc, timerReq, timerArmed, trace, events, threads, result>>

\* the exception reaches the caller of start_work or of the signal handler
Escape ==
    /\ kont = <<>>
    /\ exc # NoExc
    /\ exc' = NoExc
    /\ trace' = Rec(trace, Here("escape", exc))
    /\ UNCHANGED <<self, kont, timerReq, timerArmed, events, threads, result>>

Next ==
    \/ StartWork
    \/ StopWorkCall
    \/ TimerFired
    \/ Refocused
    \/ PulseSequenceBuilt
    \/ FinishedSaving
    \/ FinishedImage
    \/ StartTimerSlot
    \/ DoActionNotRunning
    \/ DoActionIndexError
    \/ DoWait
    \/ DoStartAgain
    \/ DoNextTargetIns
    \/ DoLog
    \/ DoTimer
    \/ DoCall
    \/ DoStartTimerCall
    \/ DoRaise
    \/ DoStoreCall
    \/ DoFetchCall
    \/ FetchReturn
    \/ DoStopper
    \/ DoInserter
    \/ DoInserter1
    \/ DoLoopTargets
    \/ RunReturn
    \/ RunExcept
    \/ AfterRun
    \/ Escape

Spec == Init /\ [][Next]_vars

(***************************************************************************)
(* The same engine used for several runs over different target lists: the  *)
(* script assigns workstacklogic.targets between two runs.                 *)
(***************************************************************************)
SetTargets ==
    /\ External
    /\ Started
    /\ ~self.running
    /\ \E T \in TargetLists :
          /\ T # self.targets
          /\ self' = [self EXCEPT !.targets = T]
    /\ trace' = Rec(trace, Here("targets", "targets"))
    /\ events' = events + 1
    /\ UNCHANGED <<kont, exc, timerReq, timerArmed, threads, result>>

NextRetarget == Next \/ SetTargets

SpecRetarget == Init /\ [][NextRetarget]_vars

(***************************************************************************)
(* The engine with save() called by the script or the console between two  *)
(* handlers.                                                               *)
(***************************************************************************)
SaveCall ==
    /\ External
    /\ Started
    /\ result' = [call |-> "save", table |-> SaveTable(self, SaveValues)]
    /\ trace' = Rec(trace, Here("save", "save"))
    /\ events' = events + 1
    /\ UNCHANGED <<self, kont, exc, timerReq, timerArmed, threads>>

NextSave == Next \/ SaveCall

SpecSave == Init /\ [][NextSave]_vars

(***************************************************************************)
(* Two threads.  start_work and stop_work are plain method calls: they run *)
(* on the thread of whoever calls them.  The five handlers and             *)
(* _start_timer are slots of queued connections (on_activate): they run on *)
(* the thread of the logic module, one after the other.  threadlock is     *)
(* created in __init__ and never taken, so the steps of the two threads    *)
(* interleave freely.                                                      *)
(***************************************************************************)
\* The programs run under SpecThreads; their instructions are dispatched by
\* DoWait and DoCall, and each step of advance_sp keeps the cursor inside the
\* live program, so do_action raises nothing.
ThreadPrograms == { <<"call", "wait refocus", "call">> }

InitThreads ==
    /\ Init
    /\ self.actions \in ThreadPrograms
    /\ Len(self.targets) <= MaxThreadTargets

\* the other thread is scheduled
Switch ==
    /\ cur' = IF cur = "caller" THEN "scheduler" ELSE "caller"
    /\ other' = [kont |-> kont, exc |-> exc]
    /\ kont' = other.kont
    /\ exc' = other.exc
    /\ UNCHANGED <<self, timerReq, timerArmed, trace, events, result>>

OnCaller == cur = "caller" /\ events < MaxThreadEvents
OnScheduler == cur = "scheduler" /\ events < MaxThreadEvents

CallerStartWork == OnCaller /\ StartWork
CallerStopWork == OnCaller /\ StopWorkCall
SchedulerRefocused == OnScheduler /\ Refocused
SchedulerPulseSequenceBuilt == OnScheduler /\ PulseSequenceBuilt
SchedulerFinishedSaving == OnScheduler /\ FinishedSaving
SchedulerFinishedImage == OnScheduler /\ FinishedImage

NextThreads ==
    \/ Switch
    \/ CallerStartWork
    \/ CallerStopWork
    \/ SchedulerRefocused
    \/ SchedulerPulseSequenceBuilt
    \/ SchedulerFinishedSaving
    \/ SchedulerFinishedImage
    \/ DoActionNotRunning
    \/ DoWait
    \/ DoCall
    \/ RunReturn
    \/ RunExcept
    \/ AfterRun

SpecThreads == InitThreads /\ [][NextThreads]_vars

(***************************************************************************)
(* The result store used through store() and fetch() alone: the calls a    *)
(* Call's function makes, with the engine's cursor moves between them      *)
(* reduced to the change of target_index.  fetch is called here only for   *)
(* a target that has a result map; its other path (do_next_target) is      *)
(* DoFetchCall.                                                            *)
(***************************************************************************)
StoreNames == {"a", "b"}
StoredValues == {1, 2}

\* fetch(name) when the current target has a result map
FetchValue(s, name) ==
    LET d == s.store[CurrentTarget(s)]
    IN  IF name \in DOMAIN d THEN d[name] ELSE Sentinel

Called(call, name, value) ==
    [ev |-> call, ti |-> self.target_index, sp |-> self.sp, ins |-> name,
     n |-> Len(self.stack), value |-> value]

InitStore ==
    /\ \E T \in { L \in TargetLists : Len(L) <= MaxStoreTargets } :
          \E ti \in 0..(IF T = <<>> THEN 0 ELSE Len(T) - 1) :
              self = [ targets |-> T, actions |-> <<>>, stack |-> <<>>,
                       store |-> EmptyDict, sp |-> 0, running |-> TRUE,
                       target_index |-> ti, multipleTargets |-> T # <<>>,
                       waiting_on |-> "", stackIsActions |-> FALSE ]
    /\ kont = <<>>
    /\ exc = NoExc
    /\ timerReq = 0
    /\ timerArmed = FALSE
    /\ trace = <<>>
    /\ events = 0
    /\ cur = "scheduler"
    /\ other = [kont |-> <<>>, exc |-> NoExc]
    /\ result = NoResult

ApiStore(name, value) ==
    /\ events < MaxCalls
    /\ self' = StoreValue(self, name, value)
    /\ result' = [call |-> "store"]
    /\ trace' = Rec(trace, Called("store", name, value))
    /\ events' = events + 1
    /\ UNCHANGED <<kont, exc, timerReq, timerArmed, threads>>

ApiFetch(name) ==
    /\ events < MaxCalls
    /\ CurrentTarget(self) \in DOMAIN self.store
    /\ result' = [call |-> "fetch", value |-> FetchValue(self, name)]
    /\ trace' = Rec(trace, Called("fetch", name, FetchValue(self, name)))
    /\ events' = events + 1
    /\ UNCHANGED <<self, kont, exc, timerReq, timerArmed, threads>>

\* the run moved to the next target: advance_sp, which creates no result
\* map, or do_next_target, which creates one
TargetMoved ==
    /\ self.multipleTargets
    /\ self.target_index < Len(self.targets) - 1
    /\ \E creates \in BOOLEAN :
          LET s1 == [self EXCEPT !.target_index = self.target_index + 1]
          IN  self' = IF creates THEN EnsureStore(s1) ELSE s1
    /\ UNCHANGED <<kont, exc, timerReq, timerArmed, trace, events, threads,
                   result>>

StoreCalled == \E name \in StoreNames, value \in StoredValues : ApiStore(name, value)
FetchCalled == \E name \in StoreNames : ApiFetch(name)

NextStore ==
    \/ StoreCalled
    \/ FetchCalled
    \/ TargetMoved

SpecStore == InitStore /\ [][NextStore]_vars

(***************************************************************************)
(* Export.  Runs over two targets given in either order, by programs that  *)
(* store a result at every target or at the first one only, with save()    *)
(* called between handlers.                                                *)
(***************************************************************************)
ExportPrograms == { <<"store", "wait", "log">>, <<"storefirst", "log">> }
ExportTargetLists == { <<"A", "B">>, <<"B", "A">> }

InitExport ==
    /\ \E P \in ExportPrograms, T \in ExportTargetLists :
          self = [ targets |-> T, actions |-> P, stack |-> <<>>,
                   store |-> EmptyDict, sp |-> 0, running |-> FALSE,
                   target_index |-> 0, multipleTargets |-> FALSE,
                   waiting_on |-> "", stackIsActions |-> FALSE ]
    /\ kont = <<>>
    /\ exc = NoExc
    /\ timerReq = 0
    /\ timerArmed = FALSE
    /\ trace = <<>>
    /\ events = 0
    /\ cur = "scheduler"
    /\ other = [kont |-> <<>>, exc |-> NoExc]
    /\ result = NoResult

NextExport ==
    \/ StartWork
    \/ StopWorkCall
    \/ SaveCall
    \/ Refocused
    \/ FinishedImage
    \/ DoActionNotRunning
    \/ DoWait
    \/ DoLog
    \/ DoStoreCall
    \/ DoStoreFirst
    \/ RunReturn

SpecExport == InitExport /\ [][NextExport]_vars

(***************************************************************************)
(* A target that starts the timer and is abandoned before the timer        *)
(* expires: the program waits, starts the timer and moves to the next      *)
(* target.                                                                 *)
(***************************************************************************)
AbandonPrograms == { <<"wait", "timer", "next target">> }

InitAbandon ==
    /\ \E P \in AbandonPrograms, T \in TargetLists :
          self = [ targets |-> T, actions |-> P, stack |-> <<>>,
                   store |-> EmptyDict, sp |-> 0, running |-> FALSE,
                   target_index |-> 0, multipleTargets |-> FALSE,
                   waiting_on |-> "", stackIsActions |-> FALSE ]
    /\ kont = <<>>
    /\ exc = NoExc
    /\ timerReq = 0
    /\ timerArmed = FALSE
    /\ trace = <<>>
    /\ events = 0
    /\ cur = "scheduler"
    /\ other = [kont |-> <<>>, exc |-> NoExc]
    /\ result = NoResult

NextAbandon ==
    \/ StartWork
    \/ StopWorkCall
    \/ TimerFired
    \/ Refocused
    \/ FinishedImage
    \/ StartTimerSlot
    \/ DoWait
    \/ DoNextTargetIns
    \/ DoTimer

SpecAbandon == InitAbandon /\ [][NextAbandon]_vars

(***************************************************************************)
(* Runs that are driven to their end.  The programs have no 'start again'  *)
(* and no callable that inserts instructions or writes target_index.  A    *)
(* handler runs to completion once called (Python executes it              *)
(* synchronously), and the environment delivers the notification a         *)
(* suspended Wait is waiting for: both are fairness conditions.            *)
(***************************************************************************)
LivePrograms ==
    { <<>>,
      <<"call", "wait refocus", "call">>,
      <<"tcall", "wait", "log">>,
      <<"store", "raise">>,
      <<"fetch", "stopper">>,
      <<"call", "next target", "call">>,
      <<"log", "timer", "wait timer", "store">>,
      <<"fetch", "wait", "log">> }

InitLive ==
    /\ \E P \in LivePrograms, T \in TargetLists :
          self = [ targets |-> T, actions |-> P, stack |-> <<>>,
                   store |-> EmptyDict, sp |-> 0, running |-> FALSE,
                   target_index |-> 0, multipleTargets |-> FALSE,
                   waiting_on |-> "", stackIsActions |-> FALSE ]
    /\ kont = <<>>
    /\ exc = NoExc
    /\ timerReq = 0
    /\ timerArmed = FALSE
    /\ trace = <<>>
    /\ events = 0
    /\ cur = "scheduler"
    /\ other = [kont |-> <<>>, exc |-> NoExc]
    /\ result = NoResult

\* the engine is suspended at a Wait: the handler of the notification that
\* Wait names is called (finished_image for a plain 'wait')
ReleasingNotification ==
    /\ Idle
    /\ Started
    /\ self.running
    /\ self.sp < Len(self.stack)
    /\ self.stack[self.sp + 1] \in WaitIns
    /\ LET name == WaitName(self.stack[self.sp + 1])
       IN  /\ IF name = ""
              THEN /\ self' = RunNextActionState(self)
                   /\ kont' = RunNextActionKont(self, kont)
              ELSE IF self.waiting_on = "" \/ self.waiting_on = name
                   THEN LET s1 == [self EXCEPT !.waiting_on = ""]
                        IN  /\ self' = RunNextActionState(s1)
                            /\ kont' = RunNextActionKont(s1, kont)
                   ELSE UNCHANGED <<self, kont>>
           /\ trace' = Rec(trace, Here("notify", IF name = "" THEN "image finished" ELSE name))
    /\ UNCHANGED <<exc, timerReq, timerArmed, events, threads, result>>

\* the steps of a handler that has been called
HandlerStep ==
    \/ DoActionNotRunning
    \/ DoActionIndexError
    \/ DoWait
    \/ DoNextTargetIns
    \/ DoLog
    \/ DoTimer
    \/ DoCall
    \/ DoRaise
    \/ DoStoreCall
    \/ DoFetchCall
    \/ FetchReturn
    \/ DoStopper
    \/ RunReturn
    \/ RunExcept
    \/ AfterRun
    \/ Escape

NextLive ==
    \/ StartWork
    \/ ReleasingNotification
    \/ HandlerStep

SpecLive ==
    /\ InitLive
    /\ [][NextLive]_vars
    /\ WF_vars(HandlerStep)
    /\ WF_vars(ReleasingNotification)

TypeOK ==
    /\ self.sp \in Nat
    /\ self.target_index \in Nat
    /\ self.running \in BOOLEAN
    /\ events \in 0..MaxEvents
    /\ Len(trace) <= MaxTrace
    /\ cur \in {"caller", "scheduler"}

(***************************************************************************)
(* Reading the history.                                                    *)
(***************************************************************************)
Idx == 1..Len(trace)
IsExec(i) == trace[i].ev = "exec"
SameRun(i, j) == \A k \in (i + 1)..j : trace[k].ev # "start"
NotifiedBetween(i, j) == \E k \in (i + 1)..(j - 1) : trace[k].ev = "notify"
Count(ev, ti, sp) ==
    Cardinality({ i \in Idx : /\ trace[i].ev = ev
                              /\ trace[i].ti = ti
                              /\ trace[i].sp = sp })
Starts == Cardinality({ i \in Idx : trace[i].ev = "start" })
NoExcept == \A i \in Idx : trace[i].ev # "except"
Recording == Len(trace) < MaxTrace
At(i, ev, ti, sp, ins) ==
    /\ trace[i].ev = ev
    /\ trace[i].ti = ti
    /\ trace[i].sp = sp
    /\ trace[i].ins = ins

(***************************************************************************)
(* C1.  For every Wait instruction that was dispatched, in any target, the *)
(* instruction after it (same target, next cursor position) is dispatched  *)
(* in the same run only after a notification was delivered in between.     *)
(***************************************************************************)
C1_WaitHoldsUntilNotified ==
    \A i, j \in Idx :
        ( /\ i < j
          /\ IsExec(i)
          /\ trace[i].ins \in WaitIns
          /\ IsExec(j)
          /\ trace[j].ti = trace[i].ti
          /\ trace[j].sp = trace[i].sp + 1
          /\ SameRun(i, j) )
        => NotifiedBetween(i, j)

NamedWaits == {"wait timer", "wait pulse upload", "wait refocus"}
C2Program ==
    /\ self.targets = <<>>
    /\ Len(self.actions) = 3
    /\ self.actions[1] \in {"call", "tcall", "starttimer"}
    /\ self.actions[2] \in NamedWaits
    /\ self.actions[3] \in {"call", "tcall"}
FReturned == \A i \in Idx : trace[i].ev = "except" => trace[i].sp # 0
NotifiedOf(name) ==
    \E i \in Idx : trace[i].ev = "notify" /\ trace[i].ins = name
C2Case ==
    /\ C2Program
    /\ Idle
    /\ Recording
    /\ trace # <<>>
    /\ trace[1].ev = "start"
    /\ Starts = 1
    /\ FReturned

(***************************************************************************)
(* C2.  Program [Call(f), Wait(x), Call(g)], x a named event, no targets,  *)
(* f returning normally.  When start_work has returned: f was dispatched   *)
(* exactly once, g not at all, and the engine is suspended with            *)
(* waiting_on = x.  When the notification of x that follows has been       *)
(* handled: g was dispatched exactly once and running is false.            *)
(***************************************************************************)
C2_SuspendThenResume ==
    C2Case =>
        /\ events = 1 =>
              /\ Count("exec", 0, 0) = 1
              /\ Count("exec", 0, 2) = 0
              /\ self.running
              /\ self.sp = 1
              /\ self.waiting_on = WaitName(self.actions[2])
        /\ (events = 2 /\ NotifiedOf(WaitName(self.actions[2]))) =>
              /\ Count("exec", 0, 0) = 1
              /\ Count("exec", 0, 2) = 1
              /\ ~self.running

C2_Witness ==
    /\ C2Case
    /\ events = 2
    /\ NotifiedOf("timer")
    /\ Count("exec", 0, 2) = 1
    /\ ~self.running

SuspendedOnNamed ==
    /\ Idle
    /\ self.running
    /\ self.waiting_on \in {"timer", "refocus", "pulse upload"}
ForeignNotification ==
    \/ TimerFired /\ self.waiting_on # "timer"
    \/ Refocused /\ self.waiting_on # "refocus"
    \/ PulseSequenceBuilt /\ self.waiting_on # "pulse upload"
    \/ FinishedSaving
    \/ FinishedImage

(***************************************************************************)
(* C3.  While the engine is suspended on a named event, the handler of any *)
(* other event (timer, refocus, pulse upload, image finished, image saved) *)
(* changes neither cursor, target_index, live program nor waiting_on and   *)
(* dispatches nothing.                                                     *)
(***************************************************************************)
C3_ForeignNotifyIsNoOp ==
    [][ (SuspendedOnNamed /\ ForeignNotification) =>
            /\ self'.sp = self.sp
            /\ self'.target_index = self.target_index
            /\ self'.stack = self.stack
            /\ self'.waiting_on = self.waiting_on
            /\ kont' = <<>> ]_vars

(***************************************************************************)
(* C4.  A Call that raises leaves the engine as a 'next target' at the    *)
(* same place would.  Both run do_next_target() from the same fields; the  *)
(* 'next target' branch then returns, so the two agree exactly when what   *)
(* do_action does after the except clause of _run has returned changes     *)
(* nothing and dispatches nothing.                                         *)
(***************************************************************************)
C4_FailureIsNextTarget ==
    [][ AtFrame("run_next_action") =>
            /\ self'.target_index = self.target_index
            /\ self'.sp = self.sp
            /\ self'.waiting_on = self.waiting_on
            /\ self'.running = self.running
            /\ kont' = Rest
            /\ trace' = trace ]_vars

C5Case ==
    /\ self.actions = <<"store", "raise">>
    /\ self.targets = <<"A", "B">>
    /\ Idle
    /\ Recording
    /\ Starts = 1
    /\ ~self.running

(***************************************************************************)
(* C5.  Targets [A, B], program [store('a', 1), a Call that raises].  Once *)
(* the run has finished, _store['A']['a'] is 1 and B's store instruction   *)
(* at position 0 was dispatched exactly once.                              *)
(***************************************************************************)
C5_TargetIsolation ==
    C5Case =>
        /\ "A" \in DOMAIN self.store
        /\ "a" \in DOMAIN self.store["A"]
        /\ self.store["A"]["a"] = 1
        /\ Count("exec", 1, 0) = 1
        /\ \A i \in Idx : (IsExec(i) /\ trace[i].ti = 1) => trace[i].sp <= 1

C5_Witness ==
    /\ C5Case
    /\ Count("except", 0, 1) = 1
    /\ Count("except", 1, 1) = 1
    /\ self.store["B"]["a"] = 1

(***************************************************************************)
(* C6.  An exception raised while a Call's function runs (a KeyError of    *)
(* fetch included, the last target included) never reaches the caller of   *)
(* start_work or of a signal handler, and the handler in which _run caught *)
(* one does not end with an exception.                                     *)
(***************************************************************************)
C6_CallFailuresAreCaught ==
    /\ exc \in InCall => (kont # <<>> /\ Head(kont).op = "_run")
    /\ \A i \in Idx :
          trace[i].ev = "escape" =>
              /\ trace[i].ins \notin InCall
              /\ \A j \in 1..(i - 1) :
                    trace[j].ev = "except" =>
                        \E k \in (j + 1)..(i - 1) : trace[k].ev \in {"start", "notify"}

C6_Witness ==
    /\ Idle
    /\ self.targets # <<>>
    /\ \E i \in Idx : /\ trace[i].ev = "except"
                      /\ trace[i].ins = "KeyError"
                      /\ trace[i].ti = Len(self.targets) - 1

RestartBetween(i, j) ==
    \E k \in i..j : IsExec(k) /\ trace[k].ins = "start again"

(***************************************************************************)
(* C7.  Within one run target_index never decreases: after an instruction  *)
(* of a target was dispatched, nothing of an earlier target runs (neither  *)
(* an instruction nor the rest of a Call's function), and the instructions *)
(* of one target are dispatched in increasing cursor order (between two    *)
(* 'start again').                                                         *)
(***************************************************************************)
C7_TargetOrder ==
    \A i, j \in Idx :
        ( /\ i < j
          /\ IsExec(i)
          /\ trace[j].ev \in {"exec", "resume"}
          /\ SameRun(i, j) )
        => /\ trace[i].ti <= trace[j].ti
           /\ ( /\ IsExec(j)
                /\ trace[i].ti = trace[j].ti
                /\ ~RestartBetween(i, j) ) => trace[i].sp < trace[j].sp

NoWaitProgram ==
    \A k \in DOMAIN self.actions :
        self.actions[k] \notin WaitIns \cup {"timer", "starttimer"}

(***************************************************************************)
(* C8.  For a program without Wait and without StartTimer, start_work      *)
(* returns with running = FALSE; no notification is needed.                *)
(***************************************************************************)
C8_Progress ==
    (NoWaitProgram /\ Idle /\ Starts >= 1) => ~self.running

Notification ==
    \/ TimerFired
    \/ Refocused
    \/ PulseSequenceBuilt
    \/ FinishedSaving
    \/ FinishedImage

(***************************************************************************)
(* C9.  After stop_work (running = FALSE), the handler of every            *)
(* notification leaves cursor, target_index and live program unchanged and *)
(* dispatches nothing; only start_work ends this.                          *)
(***************************************************************************)
C9_NotifyAfterStopIsNoOp ==
    [][ (Idle /\ ~self.running /\ Notification) =>
            /\ self'.sp = self.sp
            /\ self'.target_index = self.target_index
            /\ self'.stack = self.stack
            /\ ~self'.running
            /\ kont' = <<>> ]_vars

C9_Witness ==
    /\ Idle
    /\ ~self.running
    /\ self.sp > 0
    /\ \E h, i, j \in Idx :
          /\ h < i /\ i < j
          /\ IsExec(h) /\ trace[h].ins \in WaitIns
          /\ trace[i].ev = "stop" /\ trace[i].ins = "stop"
          /\ trace[j].ev = "notify"
          /\ SameRun(h, j)

StopCalledInHandler ==
    /\ kont # <<>>
    /\ Recording
    /\ \E i \in Idx :
          /\ trace[i].ev = "stop"
          /\ trace[i].ins = "stopper"
          /\ \A j \in (i + 1)..Len(trace) : trace[j].ev \notin {"start", "notify"}

(***************************************************************************)
(* C10.  Once stop_work() was called from inside a Call's function, the    *)
(* rest of the handler dispatches no instruction, does not move the cursor *)
(* and does not advance the target.                                        *)
(***************************************************************************)
C10_StopHaltsDispatch ==
    [][ StopCalledInHandler =>
            /\ self'.sp = self.sp
            /\ self'.target_index = self.target_index
            /\ (trace' = trace \/ trace'[Len(trace')].ev # "exec") ]_vars

\* a run is active and no handler is executing: it is suspended at a Wait
ActiveRun ==
    /\ Idle
    /\ self.running
    /\ self.sp < Len(self.stack)
    /\ self.stack[self.sp + 1] \in WaitIns

(***************************************************************************)
(* C11.  start_work() called while a run is active (running and suspended  *)
(* at a Wait) leaves the run's cursor, target_index, live program and      *)
(* waiting_on unchanged and dispatches nothing.                            *)
(***************************************************************************)
C11_StartWhileActiveFails ==
    [][ (ActiveRun /\ StartWork) =>
            /\ self'.sp = self.sp
            /\ self'.target_index = self.target_index
            /\ self'.stack = self.stack
            /\ self'.waiting_on = self.waiting_on
            /\ kont' = <<>> ]_vars

IsInsert(i) == IsExec(i) /\ trace[i].ins = "inserter"
Spliced(p) ==
    SubSeq(self.actions, 1, p + 1) \o <<"logX", "logY">>
        \o SubSeq(self.actions, p + 2, Len(self.actions))

(***************************************************************************)
(* C12.  A Call at cursor position p (the last position included) calls    *)
(* insert_actions([X, Y]).  While the Call runs, the live program is the   *)
(* template with X, Y spliced in after position p (positions 0..p          *)
(* unchanged).  The next two instructions dispatched are X at p+1 and Y at *)
(* p+2; the one after them, if it belongs to the same target, is the       *)
(* instruction that was at p+1; and no position 0..p of that target is     *)
(* dispatched again in the run.                                            *)
(***************************************************************************)
C12_InsertedRunNext ==
    \A i \in Idx :
        IsInsert(i) =>
            LET ti == trace[i].ti
                p == trace[i].sp
            IN  /\ (i = Len(trace) /\ Recording) => self.stack = Spliced(p)
                /\ (i + 1 \in Idx) => At(i + 1, "exec", ti, p + 1, "logX")
                /\ (i + 2 \in Idx) => At(i + 2, "exec", ti, p + 2, "logY")
                /\ (i + 3 \in Idx /\ IsExec(i + 3) /\ trace[i + 3].ti = ti) =>
                       /\ p + 2 <= Len(self.actions)
                       /\ At(i + 3, "exec", ti, p + 3, self.actions[p + 2])
                /\ \A j \in Idx :
                       (j > i /\ IsExec(j) /\ trace[j].ti = ti /\ SameRun(i, j))
                           => trace[j].sp > p

C12_Witness ==
    /\ Idle
    /\ ~self.running
    /\ self.actions = <<"log", "inserter">>
    /\ self.targets = <<"A", "B">>
    /\ Starts = 1
    /\ \E i \in Idx :
          /\ IsInsert(i)
          /\ trace[i].ti = 0
          /\ trace[i].sp = Len(self.actions) - 1
          /\ i + 3 \in Idx
          /\ trace[i + 2].ins = "logY"
          /\ At(i + 3, "exec", 1, 0, "log")
    /\ \E i \in Idx : IsInsert(i) /\ trace[i].ti = 1 /\ i + 2 = Len(trace)

TargetChanges == self'.target_index # self.target_index

(***************************************************************************)
(* C13.  No step changes the actions template, and whenever the engine     *)
(* moves to another target or start_work is called, the live program is    *)
(* again exactly the template: nothing inserted into the live program      *)
(* earlier is left in it.                                                  *)
(***************************************************************************)
C13_TemplateUntouched ==
    [][ /\ self'.actions = self.actions
        /\ (TargetChanges \/ StartWork) => self'.stack = self.actions ]_vars

C13_Witness ==
    /\ self.actions = <<"inserter1", "log">>
    /\ self.targets = <<"A", "B">>
    /\ \E i \in Idx : At(i, "exec", 0, 1, "inserter1")
    /\ \E i \in Idx : At(i, "exec", 1, 0, "inserter1")
    /\ Starts = 2
    /\ AtFrame("do_action")
    /\ self.sp = 0
    /\ self.target_index = 0
    /\ self.stack = <<"inserter1", "log">>

NextExec(i, j) ==
    /\ i < j
    /\ IsExec(j)
    /\ \A k \in (i + 1)..(j - 1) : ~IsExec(k)
    /\ SameRun(i, j)

(***************************************************************************)
(* C14.  The instruction dispatched next after a 'start again' is the one  *)
(* at position 0, for the same target.                                     *)
(***************************************************************************)
C14_RestartRunsFromZero ==
    \A i, j \in Idx :
        (IsExec(i) /\ trace[i].ins = "start again" /\ NextExec(i, j))
            => /\ trace[j].sp = 0
               /\ trace[j].ti = trace[i].ti

IsNextTarget(i) == IsExec(i) /\ trace[i].ins = "next target"
NotLastTarget(ti) == self.targets # <<>> /\ ti < Len(self.targets) - 1

(***************************************************************************)
(* C15.  After a 'next target' was dispatched for target ti: no            *)
(* instruction of target ti (or of an earlier one) is dispatched in the    *)
(* rest of the run.  If ti is not the last target, target_index is ti + 1, *)
(* the cursor is 0 on the template and the next instruction dispatched is  *)
(* position 0 of the template for target ti + 1.  If ti is the last target *)
(* (or there are no targets), running is false and nothing is dispatched   *)
(* in the rest of the run.                                                 *)
(***************************************************************************)
C15_NextTargetAbandons ==
    \A i \in Idx :
        IsNextTarget(i) =>
            LET ti == trace[i].ti
            IN  /\ \A j \in Idx :
                      (j > i /\ IsExec(j) /\ SameRun(i, j)) =>
                          /\ NotLastTarget(ti)
                          /\ trace[j].ti > ti
                /\ \A j \in Idx :
                      NextExec(i, j) =>
                          At(j, "exec", ti + 1, 0, self.actions[1])
                /\ (i = Len(trace) /\ Recording) =>
                      IF NotLastTarget(ti)
                      THEN /\ self.target_index = ti + 1
                           /\ self.sp = 0
                           /\ self.stack = self.actions
                           /\ self.running
                           /\ AtFrame("do_action")
                      ELSE ~self.running

C15_Witness ==
    /\ Idle
    /\ ~self.running
    /\ self.targets = <<"A", "B">>
    /\ Starts = 1
    /\ \E i, j, k \in Idx :
          /\ IsNextTarget(i)
          /\ trace[i].ti = 0
          /\ NextExec(i, j)
          /\ At(j, "exec", 1, 0, "call")
          /\ IsNextTarget(k)
          /\ trace[k].ti = 1
          /\ k = Len(trace)

Together(i, k) == IF i <= k THEN SameRun(i, k) ELSE SameRun(k, i)
Abandoning(k) ==
    \/ trace[k].ev \in {"except", "resume"}
    \/ IsExec(k) /\ trace[k].ins = "next target"
FetchPending == \E n \in 1..Len(kont) : kont[n].op = "fetch"
\* the run of event i: no Call failed, no 'next target', no fetch missed
PlainRun(i) ==
    /\ Recording
    /\ ~FetchPending
    /\ \A k \in Idx : Together(i, k) => ~Abandoning(k)
\* a callable that writes target_index: loop_targets at the last target
Rewinds(k) ==
    /\ IsExec(k)
    /\ trace[k].ins = "looptargets"
    /\ trace[k].ti + 1 = Len(self.targets)
RestartFree(i) ==
    \A k \in Idx :
        Together(i, k) =>
            ~Rewinds(k) /\ ~(IsExec(k) /\ trace[k].ins = "start again")
Stopped(i) == \E k \in Idx : Together(i, k) /\ trace[k].ev = "stop"
InOrder(i, j) ==
    \/ /\ trace[j].ti = trace[i].ti
       /\ trace[j].sp = trace[i].sp + 1
    \/ /\ trace[j].ti = trace[i].ti + 1
       /\ trace[j].ti < Len(self.targets)
       /\ trace[j].sp = 0
       /\ trace[i].sp = trace[i].n - 1
LastExec(j) ==
    /\ IsExec(j)
    /\ \A k \in (j + 1)..Len(trace) : ~IsExec(k) /\ trace[k].ev # "start"
LastTarget == IF self.targets = <<>> THEN 0 ELSE Len(self.targets) - 1
EveryTargetOnce(i) ==
    /\ \A j \in Idx :
          NextExec(i, j) =>
              IF trace[i].ev = "start"
              THEN trace[j].ti = 0 /\ trace[j].sp = 0
              ELSE IsExec(i) => InOrder(i, j)
    /\ (Idle /\ ~self.running /\ LastExec(i) /\ ~Stopped(i)) =>
          /\ trace[i].ti = LastTarget
          /\ trace[i].sp = trace[i].n - 1

(***************************************************************************)
(* C16 as stated.  In a run in which no Call fails, no 'next target' is    *)
(* dispatched and no fetch misses: the first instruction dispatched is     *)
(* position 0 of target 0; each following one is the next position of the  *)
(* same target or, after the last position of the live program, position 0 *)
(* of the next target; and when the run has finished (not by stop_work)    *)
(* the last instruction dispatched was the last one of the last target.    *)
(***************************************************************************)
C16_EveryTargetOnce ==
    \A i \in Idx : PlainRun(i) => EveryTargetOnce(i)

(***************************************************************************)
(* C16 amended: the same, for runs in which moreover no 'start again' is   *)
(* dispatched and no callable writes target_index.                         *)
(***************************************************************************)
C16_EveryTargetOnceNoRestart ==
    \A i \in Idx : (PlainRun(i) /\ RestartFree(i)) => EveryTargetOnce(i)

C16_Witness ==
    /\ Idle
    /\ ~self.running
    /\ Len(self.targets) = 2
    /\ Len(self.actions) = 3
    /\ Starts = 1
    /\ PlainRun(1)
    /\ RestartFree(1)
    /\ ~Stopped(1)
    /\ \A t \in 0..1, p \in 0..2 : Count("exec", t, p) = 1

\* event i belongs to the run in progress (or the last one), and the targets
\* field was not assigned since
Current(i) ==
    \A k \in (i + 1)..Len(trace) : trace[k].ev \notin {"start", "targets"}

(***************************************************************************)
(* C17.  When start_work is called with an empty targets list, whatever    *)
(* the engine ran before: current_target() returns the synthetic key '_';  *)
(* the instructions are dispatched in cursor order for one and the same    *)
(* target; and the run finishes after the last position, without starting  *)
(* over.                                                                   *)
(***************************************************************************)
C17_EmptyTargetsIsOneTarget ==
    self.targets = <<>> =>
        /\ self.running =>
              IF CurrentTargetRaises(self) THEN FALSE ELSE CurrentTarget(self) = "_"
        /\ \A i, j \in Idx :
              ( /\ PlainRun(i)
                /\ RestartFree(i)
                /\ IsExec(i)
                /\ NextExec(i, j)
                /\ Current(j) )
              => /\ trace[j].ti = trace[i].ti
                 /\ trace[j].sp = trace[i].sp + 1
        /\ \A i \in Idx :
              ( /\ PlainRun(i)
                /\ RestartFree(i)
                /\ Current(i)
                /\ LastExec(i)
                /\ ~Stopped(i)
                /\ Idle
                /\ ~self.running )
              => trace[i].sp = trace[i].n - 1

(***************************************************************************)
(* C18.  With an empty actions list, once start_work was called: no        *)
(* exception is raised in or leaves the call, nothing is dispatched, and   *)
(* when the call has returned running is false.                            *)
(***************************************************************************)
C18_EmptyProgramFinishes ==
    (self.actions = <<>> /\ Started) =>
        /\ exc = NoExc
        /\ \A i \in Idx : trace[i].ev \notin {"escape", "exec"}
        /\ Idle => ~self.running

Emitted(i) ==
    Cardinality({ k \in Idx : /\ Together(i, k)
                              /\ trace[k].ev = "emit"
                              /\ trace[k].ins = "signal_work_stopped" })

(***************************************************************************)
(* C19.  When a run has ended without stop_work having been called in it   *)
(* (the last target's program, or the untargeted program, was passed or    *)
(* abandoned), signal_work_stopped was emitted exactly once in that run.    *)
(***************************************************************************)
C19_WorkStoppedEmittedOnce ==
    \A i \in Idx :
        ( /\ Recording
          /\ Idle
          /\ ~self.running
          /\ LastExec(i)
          /\ ~Stopped(i) )
        => Emitted(i) = 1

Dispatching(k) == k # <<>>

(***************************************************************************)
(* C20.  With start_work and stop_work called on a caller thread and the   *)
(* handlers run on the thread of the logic module, at most one of the two  *)
(* threads is inside a dispatch (has a do_action chain on its call stack)  *)
(* at any time.                                                            *)
(***************************************************************************)
C20_OneDispatchAtATime ==
    ~(Dispatching(kont) /\ Dispatching(other.kont))

\* a Call's function is executing: a fetch frame is the part of it that
\* called do_next_target and has not returned
InsideCallFunction(k) == \E n \in 1..Len(k) : k[n].op = "fetch"
\* innermost frame of k that belongs to a Call's function
CallDepth(k) == CHOOSE n \in 1..Len(k) :
                    /\ k[n].op = "fetch"
                    /\ \A m \in 1..(n - 1) : k[m].op # "fetch"

(***************************************************************************)
(* C21.  While the function of a Call is executing (fetch and store        *)
(* included), do_action is not entered: no frame of the dispatcher lies    *)
(* above a frame of the function on the call stack, and the function       *)
(* continues before any other instruction is dispatched.                   *)
(***************************************************************************)
C21_NoDispatchInsideCall ==
    InsideCallFunction(kont) => CallDepth(kont) = 1

\* the engine is suspended at an unnamed Wait that is not the last instruction
SuspendedAtAnyWait ==
    /\ Idle
    /\ self.running
    /\ self.sp < Len(self.stack) - 1
    /\ self.stack[self.sp + 1] = "wait"

(***************************************************************************)
(* C22.  When the engine is suspended at a 'wait' that has an instruction  *)
(* after it, the handler of any of the five notifications moves the cursor *)
(* to that instruction, in the same program of the same target, and calls  *)
(* do_action for it; nothing else is pending.                              *)
(***************************************************************************)
C22_AnyNotificationResumes ==
    [][ (SuspendedAtAnyWait /\ Notification) =>
            /\ self'.running
            /\ self'.sp = self.sp + 1
            /\ self'.target_index = self.target_index
            /\ self'.stack = self.stack
            /\ Len(kont') = 1
            /\ Head(kont').op = "do_action"
            /\ exc' = NoExc ]_vars

\* a timer notification released the 'wait' at position 2 and the
\* instruction after it was dispatched next
C22_Witness ==
    \E i \in Idx :
        /\ i + 2 \in Idx
        /\ At(i, "exec", 0, 2, "wait")
        /\ trace[i + 1].ev = "notify"
        /\ trace[i + 1].ins = "timer"
        /\ At(i + 2, "exec", 0, 3, "log")

\* StartTimer instructions dispatched and timer notifications delivered so far
TimersStarted ==
    Cardinality({ k \in Idx : IsExec(k) /\ trace[k].ins \in {"timer", "starttimer"} })
TimerNotifications ==
    Cardinality({ k \in Idx : trace[k].ev = "notify" /\ trace[k].ins = "timer" })
\* no emission of signal_start_timer is queued and the timer is not running:
\* no timer notification can follow
TimerQuiet == timerReq = 0 /\ ~timerArmed

(***************************************************************************)
(* C23.  There are never more timer notifications than StartTimer          *)
(* instructions dispatched, and once every queued start of the timer has   *)
(* been handled and the timer is not running, there is exactly one timer   *)
(* notification for each StartTimer dispatched (also when two StartTimers  *)
(* were dispatched before the first notification).                         *)
(***************************************************************************)
C23_OneNotificationPerStartTimer ==
    (Recording /\ TimersStarted <= MaxQueued) =>
        /\ TimerNotifications <= TimersStarted
        /\ TimerQuiet => TimerNotifications = TimersStarted

\* the entries of the result store, as (target, name) pairs
Entries(s) ==
    { e \in (DOMAIN s.store) \X StoreNames : e[2] \in DOMAIN s.store[e[1]] }

(***************************************************************************)
(* C24.  store(name, v) leaves the current target what it was, and after   *)
(* it: fetch(name) returns v; every other (target, name) entry that        *)
(* existed still exists with the same value; and no entry was created      *)
(* other than (current target, name).                                      *)
(***************************************************************************)
C24_StoreIsUpsert ==
    [][ \A name \in StoreNames, v \in StoredValues :
          ApiStore(name, v) =>
              LET t == CurrentTarget(self)
              IN  /\ CurrentTarget(self') = t
                  /\ t \in DOMAIN self'.store
                  /\ FetchValue(self', name) = v
                  /\ Entries(self') = Entries(self) \cup {<<t, name>>}
                  /\ \A e \in Entries(self) \ {<<t, name>>} :
                        self'.store[e[1]][e[2]] = self.store[e[1]][e[2]] ]_vars

\* 'a' was stored twice under one target, 'b' and another target's 'a' were
\* stored too, and fetch('a') returned the later value
C24_Witness ==
    /\ Len(trace) = 4
    /\ result = [call |-> "fetch", value |-> 2]
    /\ trace[4].ev = "fetch" /\ trace[4].ins = "a"
    /\ \E i, j \in 1..3 :
          /\ i < j
          /\ trace[i].ev = "store" /\ trace[i].ins = "a" /\ trace[i].value = 1
          /\ trace[j].ev = "store" /\ trace[j].ins = "a" /\ trace[j].value = 2
          /\ trace[i].ti = trace[4].ti
          /\ trace[j].ti = trace[4].ti
    /\ Cardinality(Entries(self)) = 2

\* 'a' was never stored under the current target
NeverStored(s) ==
    /\ ~CurrentTargetRaises(s)
    /\ \/ CurrentTarget(s) \notin DOMAIN s.store
       \/ "a" \notin DOMAIN s.store[CurrentTarget(s)]

(***************************************************************************)
(* C25.  A Call whose function calls fetch('a') while 'a' was never stored *)
(* under the current target fails: the call of fetch raises inside _run    *)
(* (whose except clause then abandons the target), at once or, when fetch  *)
(* first called do_next_target, as soon as that call has returned.         *)
(***************************************************************************)
C25_FetchOfMissingNameFails ==
    [][ /\ (DoFetchCall /\ NeverStored(self)) =>
               \/ exc' \in InCall
               \/ kont' # <<>> /\ InsideCallFunction(kont')
        /\ FetchReturn => exc' \in InCall ]_vars

\* fetch finds no result map for the current target
NoResultMap(s) ==
    ~CurrentTargetRaises(s) /\ CurrentTarget(s) \notin DOMAIN s.store

(***************************************************************************)
(* C26.  A fetch inside a Call that finds no result map for the current    *)
(* target abandons that target and no other: its call of do_next_target    *)
(* adds one to target_index (or ends the run at the last target), and the  *)
(* failure of the Call that follows (the KeyError of the same fetch)       *)
(* changes neither target_index nor running.                               *)
(***************************************************************************)
C26_FetchMissAbandonsOneTarget ==
    [][ /\ (DoFetchCall /\ NoResultMap(self)) =>
               IF DoNextTargetMoves(self)
               THEN /\ self'.target_index = self.target_index + 1
                    /\ self'.running = self.running
               ELSE /\ self'.target_index = self.target_index
                    /\ ~self'.running
        /\ (RunExcept /\ exc = "KeyError") =>
               /\ self'.target_index = self.target_index
               /\ self'.running = self.running ]_vars

(***************************************************************************)
(* C27.  Every step of the engine (start_work, stop_work, save, the        *)
(* handlers, the dispatch of any instruction, target advance, target       *)
(* abandon, 'start again') keeps every entry of the result store with its  *)
(* value, except that a store to (target, name) may change that entry.     *)
(***************************************************************************)
C27_StoredValuesKept ==
    [][ \A e \in Entries(self) :
           \/ /\ e \in Entries(self')
              /\ self'.store[e[1]][e[2]] = self.store[e[1]][e[2]]
           \/ /\ DoStoreCall
              /\ e = <<CurrentTarget(self), "a">>
              /\ e \in Entries(self') ]_vars

\* 'a' was stored under A and B in a run in which both targets were
\* abandoned; the run was started again and the table exported; both entries
\* are there
C27_Witness ==
    /\ Starts = 2
    /\ \E k \in Idx : trace[k].ev = "except"
    /\ \E k \in Idx : trace[k].ev = "save"
    /\ result.call = "save"
    /\ self.targets = <<"A", "B">>
    /\ Entries(self) = {<<"A", "a">>, <<"B", "a">>}
    /\ self.store["A"]["a"] = 1

\* the run over the targets has ended after the last instruction of the last
\* target, nothing has happened since but calls of save, and the table of
\* the last one is in result
Exported ==
    /\ Idle
    /\ ~self.running
    /\ Recording
    /\ Starts = 1
    /\ result.call = "save"
    /\ \A k \in Idx : trace[k].ev \notin {"stop", "except"}
    /\ \E i \in Idx :
          /\ LastExec(i)
          /\ trace[i].ti = Len(self.targets) - 1
          /\ trace[i].sp = trace[i].n - 1
Row(target, a, b) == [target |-> target, cells |-> <<a, b>>]

(***************************************************************************)
(* C28.  After a run over the targets [A, B] in which 'a' was stored under *)
(* A and nothing else was stored, save() with save_values = ['a', 'b']     *)
(* raises nothing and exports two rows: A with the stored value and the    *)
(* sentinel, B with the sentinel twice.                                    *)
(***************************************************************************)
C28_ExportHasRowPerTarget ==
    ( /\ Exported
      /\ self.targets = <<"A", "B">>
      /\ Entries(self) = {<<"A", "a">>} )
    => /\ exc = NoExc
       /\ result.table = <<Row("A", self.store["A"]["a"], Sentinel),
                           Row("B", Sentinel, Sentinel)>>

\* position of a key in the Targets list
TargetPos(t) == CHOOSE i \in 1..Len(self.targets) : self.targets[i] = t

(***************************************************************************)
(* C29.  In the table save() exports, every row is the row of a target of  *)
(* the Targets list and the rows are in the order of that list.            *)
(***************************************************************************)
C29_RowsInTargetsOrder ==
    result.call = "save" =>
        \A i, j \in 1..Len(result.table) :
            /\ \E k \in 1..Len(self.targets) :
                  self.targets[k] = result.table[i].target
            /\ i < j =>
                  TargetPos(result.table[i].target) < TargetPos(result.table[j].target)

(***************************************************************************)
(* C30.  Whenever an instruction has just been dispatched, it was read at  *)
(* another cursor (another position or another target) than the            *)
(* instruction dispatched before it in the same run, unless that one was a *)
(* 'start again', whose reset to 0 and advance may lead back to its own    *)
(* position.                                                               *)
(***************************************************************************)
C30_CursorChangesBetweenDispatches ==
    (trace # <<>> /\ IsExec(Len(trace))) =>
        \A i \in Idx :
            (IsExec(i) /\ NextExec(i, Len(trace))) =>
                \/ trace[Len(trace)].ti # trace[i].ti
                \/ trace[Len(trace)].sp # trace[i].sp
                \/ trace[i].ins = "start again"

\* a Call inserted an instruction before itself and has just been dispatched
\* again, at the next position
C30_Witness ==
    /\ Len(trace) >= 3
    /\ At(Len(trace) - 1, "exec", 0, 0, "inserter1")
    /\ At(Len(trace), "exec", 0, 1, "inserter1")

\* position of the first Wait of the template (its length if it has none)
FirstWait ==
    IF \E p \in 1..Len(self.actions) : self.actions[p] \in WaitIns
    THEN (CHOOSE p \in 1..Len(self.actions) :
              /\ self.actions[p] \in WaitIns
              /\ \A q \in 1..(p - 1) : self.actions[q] \notin WaitIns) - 1
    ELSE Len(self.actions)
\* start_work, recorded as event i, has returned and nothing was called or
\* delivered since
StartReturned(i) ==
    /\ Recording
    /\ Idle
    /\ trace[i].ev = "start"
    /\ \A k \in (i + 1)..Len(trace) :
          trace[k].ev \in {"exec", "except", "resume", "escape"}
          \/ (trace[k].ev = "stop" /\ trace[k].ins = "stopper")
ExecutedSince(i, ti, sp) ==
    Cardinality({ k \in (i + 1)..Len(trace) : /\ IsExec(k)
                                              /\ trace[k].ti = ti
                                              /\ trace[k].sp = sp })

(***************************************************************************)
(* C31.  When the first start_work, called with a non-empty program on the *)
(* idle engine, has returned: the run began at position 0 of target 0      *)
(* with the template as live program; no position was dispatched twice     *)
(* for one target; no position after the first Wait of the program was     *)
(* dispatched; and the engine is either finished or suspended at that      *)
(* first Wait, every position before it dispatched once for the current    *)
(* target.                                                                 *)
(***************************************************************************)
C31_StartRunsToFirstWait ==
    \A i \in Idx :
        ( /\ StartReturned(i)
          /\ self.actions # <<>>
          /\ i = 1 )
        => /\ trace[i].ti = 0
           /\ trace[i].sp = 0
           /\ i < Len(trace) => At(i + 1, "exec", 0, 0, self.actions[1])
           /\ \A k \in (i + 1)..Len(trace) :
                 IsExec(k) =>
                    /\ ExecutedSince(i, trace[k].ti, trace[k].sp) = 1
                    /\ FirstWait < Len(self.actions) => trace[k].sp <= FirstWait
           /\ self.running =>
                 /\ self.sp = FirstWait
                 /\ self.sp < Len(self.stack)
                 /\ self.stack[self.sp + 1] \in WaitIns
                 /\ \A p \in 0..FirstWait :
                       ExecutedSince(i, self.target_index, p) = 1

(***************************************************************************)
(* C32.  When loop_targets is dispatched as the last instruction of the    *)
(* program of the last of two or more targets, the instruction dispatched  *)
(* next in that run is dispatched for target 0.                            *)
(***************************************************************************)
C32_LoopTargetsRevisitsFirst ==
    \A k, j \in Idx :
        ( /\ Recording
          /\ Len(self.targets) >= 2
          /\ Rewinds(k)
          /\ trace[k].sp + 1 = trace[k].n
          /\ NextExec(k, j) )
        => trace[j].ti = 0

(***************************************************************************)
(* C33.  When a Call whose function calls insert_action(a) was dispatched  *)
(* and a was inserted, the instruction dispatched next in that run is a    *)
(* (and so not the Call again).                                            *)
(***************************************************************************)
C33_InsertedActionRunsNext ==
    \A k, j \in Idx :
        ( /\ Recording
          /\ IsExec(k)
          /\ trace[k].ins = "inserter1"
          /\ trace[k].n < MaxStack
          /\ NextExec(k, j) )
        => trace[j].ins = "logX"

(***************************************************************************)
(* C34.  Whenever the engine is running a non-empty program with a         *)
(* non-empty targets list, the result store holds a map for the current    *)
(* target.                                                                 *)
(***************************************************************************)
C34_CurrentTargetHasMap ==
    ( /\ self.running
      /\ self.targets # <<>>
      /\ self.actions # <<>>
      /\ ~CurrentTargetRaises(self) )
    => CurrentTarget(self) \in DOMAIN self.store

\* event m abandons the target for which event k was dispatched
AbandonsTargetOf(k, m) ==
    /\ trace[m].ti = trace[k].ti
    /\ \/ trace[m].ev = "except"
       \/ IsExec(m) /\ trace[m].ins = "next target"
\* the timer notification j is that of the StartTimer dispatched as event k:
\* no StartTimer and no timer notification lies between them
TimerNotificationOf(k, j) ==
    /\ k < j
    /\ SameRun(k, j)
    /\ IsExec(k)
    /\ trace[k].ins \in {"timer", "starttimer"}
    /\ trace[j].ev = "notify"
    /\ trace[j].ins = "timer"
    /\ \A m \in (k + 1)..(j - 1) :
          /\ ~(IsExec(m) /\ trace[m].ins \in {"timer", "starttimer"})
          /\ ~(trace[m].ev = "notify" /\ trace[m].ins = "timer")

(***************************************************************************)
(* C35.  The timer notification of a StartTimer dispatched for a target    *)
(* that was abandoned afterwards, delivered while a later target of the    *)
(* same run is suspended, dispatches nothing: the Wait of the later target *)
(* is not released.                                                        *)
(***************************************************************************)
C35_StaleTimerReleasesNothing ==
    \A k, j \in Idx :
        ( /\ Recording
          /\ TimerNotificationOf(k, j)
          /\ trace[j].ti > trace[k].ti
          /\ \E m \in (k + 1)..(j - 1) : AbandonsTargetOf(k, m)
          /\ j < Len(trace) )
        => ~IsExec(j + 1)

(***************************************************************************)
(* C36.  With a non-empty actions template, whenever do_action is about to *)
(* read its instruction (it was called and the engine is running), the     *)
(* cursor is a valid index of the live program: 0 <= sp < len(stack).      *)
(***************************************************************************)
C36_DispatchReadsInsideProgram ==
    ( /\ self.actions # <<>>
      /\ AtFrame("do_action")
      /\ self.running )
    => /\ 0 <= self.sp
       /\ self.sp < Len(self.stack)

\* do_action is about to read the last instruction of a program that
\* insert_actions made longer than the template, in a target reached after
\* the first one
C36_Witness ==
    /\ self.actions # <<>>
    /\ AtFrame("do_action")
    /\ self.running
    /\ Len(self.stack) > Len(self.actions)
    /\ self.sp = Len(self.stack) - 1
    /\ self.target_index > 0

(***************************************************************************)
(* C37.  With a non-empty targets list that is never replaced,             *)
(* 0 <= target_index < len(targets) in every reachable state.              *)
(***************************************************************************)
C37_TargetIndexInRange ==
    self.targets # <<>> =>
        /\ 0 <= self.target_index
        /\ self.target_index < Len(self.targets)

\* a Call failed for the last of several targets and the run ended there
C37_Witness ==
    /\ Idle
    /\ Len(self.targets) >= 2
    /\ ~self.running
    /\ self.target_index = Len(self.targets) - 1
    /\ \E k \in Idx : /\ trace[k].ev = "except"
                      /\ trace[k].ti = Len(self.targets) - 1

(***************************************************************************)
(* C38.  Under the fairness of SpecLive (a called handler runs to its end, *)
(* the notification of a suspended Wait is delivered), with a program      *)
(* without 'start again' and without callables that insert instructions or *)
(* write target_index, a run that is running eventually is not running,    *)
(* whichever Calls fail.                                                   *)
(***************************************************************************)
C38_RunEventuallyFinishes == self.running ~> ~self.running

====
